---- MODULE Spec2Model ----
(***************************************************************************)
(* Model of the Telegram task assistant: the task repository              *)
(* (database.py), the lifecycle operations and the deadline sweeper       *)
(* check_deadlines (bot.py).                                              *)
(*                                                                         *)
(* Time is counted in minutes from an arbitrary origin, in UTC.  The      *)
(* sweeper is a coroutine on the event loop it shares with the handlers:  *)
(* it runs atomically from one `await context.bot.send_message` to the    *)
(* next, and handlers run while it is suspended in a send.  One sweep     *)
(* runs at a time (a single repeating job).                               *)
(***************************************************************************)
EXTENDS Integers, Sequences, FiniteSets, TLC

VARIABLES
    tasks,      \* the tasks table: a function from the ids of its rows
    nextId,     \* next AUTOINCREMENT id
    users,      \* the users table: user_id -> timezone string, or NoRow
    now,        \* the wall clock (minutes, UTC)
    pc,         \* sweeper: "idle", or "sending" while suspended in send_message
    sweepNow,   \* now_utc read at the start of the sweep
    snapshot,   \* rows returned by get_pending_tasks_with_due_dates()
    todo,       \* sends the running sweep still has to make: <<[row, key]>>
    inflight,   \* the message handed to send_message, or NoMsg
    sentStatus, \* repository status of the task when send_message was called
    attempts,   \* per task: send_message calls of the sweep
    outcome,    \* per task: how its send and mark went in the sweep: "none",
                \* "fail" (send raised), "ok" (sent, mark returned True),
                \* "gone" (sent, mark found no row), "dberr" (sent, mark met
                \* a sqlite3 error)
    atMark,     \* per task: its repository status when the sweep called mark
    marks,      \* per task: flags set by the sweep
    delivered,  \* per (task, key): successful deliveries so far (capped at 2)
    faults,     \* sqlite3 errors met by the sweeper's mark so far
    nSweeps,    \* sweeps started so far
    jobs        \* jobs named 'global_deadline_check' in the job queue

\* sweepNow, snapshot, attempts, outcome, atMark and marks describe the running sweep,
\* or the sweep that has just ended until the next operation or clock tick.
vars == <<tasks, nextId, users, now, pc, sweepNow, snapshot, todo, inflight,
          sentStatus, attempts, outcome, atMark, marks, delivered, faults,
          nSweeps, jobs>>

-----------------------------------------------------------------------------
(* Bounds and input sets *)

MaxTasks == 2

\* how many of the sweeper's marks may meet a sqlite3 error
MaxFaults == 1

\* how many times the repeating job runs check_deadlines
MaxSweeps == 2

\* the same, where a single task is followed through all its thresholds
MaxPolicySweeps == 7

TaskIds == 1..MaxTasks

NoRow == "NoRow"

\* due_date IS NULL
NoDue == -1

NoMsg == [chat |-> 0, kind |-> "none", i_desc |-> "", tid |-> 0, desc |-> "",
          d_loc |-> 0, tz_key |-> "", key |-> ""]

Users == {1, 2}

\* instants the clock may show (it starts at 0): for a task due at 1500 the
\* remaining time is more than 24 h, 10 min, and -2 h
Instants == {1490, 1620}

\* the same, where a single task is followed through all its thresholds: the
\* remaining time is 24 h 1 min, 24 h, 12 h, 5 h, 3 h, 2 h, 1 h, 15 min,
\* 10 min, 0 and -2 h
PolicyInstants == {59, 60, 780, 1200, 1320, 1380, 1440, 1485, 1490, 1500, 1620}

\* task ids a request may name: those of the tasks, and 0
IdInputs == 0..MaxTasks

\* callback data: well formed ('<action>:<integer id>') or not
CallbackInputs ==
    [wellformed : {TRUE}, action : {"done", "delete", "other"}, task_id : IdInputs]
        \cup {[wellformed |-> FALSE, action |-> "", task_id |-> 0]}

\* a due-date string dateparser cannot parse
Unparseable == -2

\* requests to add_task_logic: due_str is the wall time the due-date string
\* names in the owner's zone, NoDue for no string (None or ''), or Unparseable;
\* user 0 is a request without its context
AddRequests ==
    { [user |-> 1, chat |-> 11, desc |-> "thesis", due_str |-> 1800],
      [user |-> 1, chat |-> 11, desc |-> "",       due_str |-> 1560],
      [user |-> 1, chat |-> 11, desc |-> "note",   due_str |-> NoDue],
      [user |-> 1, chat |-> 11, desc |-> "call",   due_str |-> Unparseable],
      [user |-> 0, chat |-> 11, desc |-> "ghost",  due_str |-> NoDue] }

AddInputs ==
    { [user |-> 1, chat |-> 11, desc |-> "thesis", due |-> 1500],
      [user |-> 2, chat |-> 22, desc |-> "report", due |-> 1500],
      [user |-> 1, chat |-> 11, desc |-> "note",   due |-> NoDue] }

TimezoneInputs ==
    { [user |-> 1, tz |-> "Asia/Tashkent"], [user |-> 2, tz |-> "Mars/Phobos"] }

-----------------------------------------------------------------------------
(* Timezones *)

\* zoneinfo.ZoneInfo(name) succeeds for these names only
ZoneInfoKnown(name) == name \in {"UTC", "Asia/Tashkent"}

UtcOffset(zone) == IF zone = "Asia/Tashkent" THEN 300 ELSE 0

\* how zoneinfo.ZoneInfo(name) ends: "ok"; "notfound", ZoneInfoNotFoundError
\* (no such key); "value", ValueError (the key is not a normalized relative
\* path: the empty string, '../x')
ZoneInfo(name) ==
    IF ZoneInfoKnown(name) THEN "ok"
    ELSE IF name \in {"", "../x"} THEN "value"
    ELSE "notfound"

\* tz = UTC; try: tz = zoneinfo.ZoneInfo(tz_str) except: keep UTC
ResolveZone(tz_str) == IF ZoneInfoKnown(tz_str) THEN tz_str ELSE "UTC"

\* the conversion forgotten: the UTC wall time is printed
format_datetime_utc(dt_utc, zone) == dt_utc

\* dt_utc.astimezone(user_tz).strftime('%Y-%m-%d %H:%M'): the local wall time
format_datetime_local(dt_utc, zone) == dt_utc + UtcOffset(zone)

-----------------------------------------------------------------------------
(* Notification thresholds *)

final_key == "notified_final_due"

\* the dict, in its insertion order
NOTIFICATION_INTERVALS ==
    << [key |-> "notified_24h", delta |-> 24 * 60, desc |-> "in less than 24 hours"],
       [key |-> "notified_12h", delta |-> 12 * 60, desc |-> "in less than 12 hours"],
       [key |-> "notified_6h",  delta |-> 6 * 60,  desc |-> "in less than 6 hours"],
       [key |-> "notified_3h",  delta |-> 3 * 60,  desc |-> "in less than 3 hours"],
       [key |-> "notified_1h",  delta |-> 60,      desc |-> "in less than 1 hour"],
       [key |-> "notified_15m", delta |-> 15,      desc |-> "in less than 15 minutes"],
       [key |-> final_key,      delta |-> 0,       desc |-> "NOW or is OVERDUE"] >>

NOTIFICATION_INTERVAL_KEYS ==
    {"notified_24h", "notified_12h", "notified_6h", "notified_3h",
     "notified_1h", "notified_15m", "notified_final_due"}

Interval(k) ==
    CHOOSE e \in {NOTIFICATION_INTERVALS[i] : i \in DOMAIN NOTIFICATION_INTERVALS} :
        e.key = k

-----------------------------------------------------------------------------
(* Repository (database.py) *)

Min(a, b) == IF a < b THEN a ELSE b

Exists(tks, id) == id \in DOMAIN tks

\* the id of a table declared INTEGER PRIMARY KEY without AUTOINCREMENT: one
\* more than the largest id in the table now
lastrowid_max_rowid(tks, seq) ==
    IF DOMAIN tks = {} THEN 1
    ELSE 1 + CHOOSE m \in DOMAIN tks : \A i \in DOMAIN tks : i <= m

\* id INTEGER PRIMARY KEY AUTOINCREMENT: the id an insert gets is one more
\* than the largest id the table has ever held, which is what seq counts
lastrowid(tks, seq) == seq

\* INSERT INTO tasks ... 'pending', False x7; returns cursor.lastrowid
add_task(tks, id, user_id, chat_id, description, due_date_utc) ==
    [i \in DOMAIN tks \cup {id} |->
        IF i = id
        THEN [id |-> id, user_id |-> user_id, chat_id |-> chat_id,
              description |-> description, due_date |-> due_date_utc,
              status |-> "pending", flags |-> {}]
        ELSE tks[i]]

\* the owner left out of the query (SELECT * FROM tasks WHERE id = ?)
get_task_any_owner(tks, task_id, user_id) ==
    IF Exists(tks, task_id) THEN <<tks[task_id]>> ELSE <<>>

\* SELECT * FROM tasks WHERE id = ? AND user_id = ?; fetchone(): <<row>>, or
\* <<>> for None
get_task_by_id(tks, task_id, user_id) ==
    IF Exists(tks, task_id) /\ tks[task_id].user_id = user_id
    THEN <<tks[task_id]>> ELSE <<>>

\* the status written by replacing the row (INSERT OR REPLACE with the notified
\* columns left to their default FALSE)
update_status_replace_row(tks, task_id, user_id, status, dbOk) ==
    IF dbOk /\ get_task_by_id(tks, task_id, user_id) # <<>>
    THEN [tasks |-> [tks EXCEPT ![task_id].status = status,
                                ![task_id].flags = {}],
          ret |-> TRUE]
    ELSE [tasks |-> tks, ret |-> FALSE]

\* UPDATE tasks SET status = ? WHERE id = ? AND user_id = ?
update_task_status(tks, task_id, user_id, status, dbOk) ==
    IF dbOk /\ get_task_by_id(tks, task_id, user_id) # <<>>
    THEN [tasks |-> [tks EXCEPT ![task_id].status = status], ret |-> TRUE]
    ELSE [tasks |-> tks, ret |-> FALSE]

\* the row kept and marked instead (UPDATE tasks SET status = 'deleted' ...)
delete_task_soft(tks, task_id, user_id, dbOk) ==
    IF dbOk /\ get_task_by_id(tks, task_id, user_id) # <<>>
    THEN [tasks |-> [tks EXCEPT ![task_id].status = "deleted"], ret |-> TRUE]
    ELSE [tasks |-> tks, ret |-> FALSE]

\* DELETE FROM tasks WHERE id = ? AND user_id = ?
delete_task(tks, task_id, user_id, dbOk) ==
    IF dbOk /\ get_task_by_id(tks, task_id, user_id) # <<>>
    THEN [tasks |-> [i \in DOMAIN tks \ {task_id} |-> tks[i]], ret |-> TRUE]
    ELSE [tasks |-> tks, ret |-> FALSE]

\* the update restricted to pending tasks (... WHERE id = ? AND status = 'pending')
mark_pending_only(tks, task_id, interval_key, dbOk) ==
    IF interval_key \notin NOTIFICATION_INTERVAL_KEYS
    THEN [tasks |-> tks, ret |-> FALSE]
    ELSE IF dbOk /\ Exists(tks, task_id) /\ tks[task_id].status = "pending"
    THEN [tasks |-> [tks EXCEPT ![task_id].flags = @ \cup {interval_key}],
          ret |-> TRUE]
    ELSE [tasks |-> tks, ret |-> FALSE]

\* the update written as an upsert (INSERT OR REPLACE): a missing row is created
mark_or_insert(tks, task_id, interval_key, dbOk) ==
    IF interval_key \notin NOTIFICATION_INTERVAL_KEYS \/ ~dbOk
    THEN [tasks |-> tks, ret |-> FALSE]
    ELSE IF Exists(tks, task_id)
    THEN [tasks |-> [tks EXCEPT ![task_id].flags = @ \cup {interval_key}],
          ret |-> TRUE]
    ELSE [tasks |-> [i \in DOMAIN tks \cup {task_id} |->
                        IF i = task_id
                        THEN [id |-> task_id, user_id |-> 0, chat_id |-> 0,
                              description |-> "", due_date |-> NoDue,
                              status |-> "pending", flags |-> {interval_key}]
                        ELSE tks[i]],
          ret |-> TRUE]

\* the update also closing the task (SET <interval_key> = TRUE, status = 'done')
mark_and_close(tks, task_id, interval_key, dbOk) ==
    IF interval_key \notin NOTIFICATION_INTERVAL_KEYS
    THEN [tasks |-> tks, ret |-> FALSE]
    ELSE IF dbOk /\ Exists(tks, task_id)
    THEN [tasks |-> [tks EXCEPT ![task_id].flags = @ \cup {interval_key},
                                ![task_id].status = "done"],
          ret |-> TRUE]
    ELSE [tasks |-> tks, ret |-> FALSE]

\* UPDATE tasks SET <interval_key> = TRUE WHERE id = ?; True iff rowcount > 0.
\* dbOk = FALSE is a sqlite3.Error: nothing is committed and False is returned.
mark_specific_notification_sent(tks, task_id, interval_key, dbOk) ==
    IF interval_key \notin NOTIFICATION_INTERVAL_KEYS
    THEN [tasks |-> tks, ret |-> FALSE]
    ELSE IF dbOk /\ Exists(tks, task_id)
    THEN [tasks |-> [tks EXCEPT ![task_id].flags = @ \cup {interval_key}],
          ret |-> TRUE]
    ELSE [tasks |-> tks, ret |-> FALSE]

\* SELECT timezone FROM users WHERE user_id = ?: 'UTC' when there is no row;
\* the stored string when ZoneInfo accepts it; 'UTC' when ZoneInfo raises
\* ZoneInfoNotFoundError, the one exception caught there; any other exception
\* of ZoneInfo leaves the function
get_user_timezone_str(usr, user_id) ==
    IF usr[user_id] = NoRow THEN [tz |-> "UTC", raised |-> FALSE]
    ELSE IF ZoneInfo(usr[user_id]) = "ok"
    THEN [tz |-> usr[user_id], raised |-> FALSE]
    ELSE [tz |-> "UTC", raised |-> ZoneInfo(usr[user_id]) # "notfound"]

\* get_user_tz: the call of get_user_timezone_str is outside its try
get_user_tz(usr, user_id) ==
    LET s == get_user_timezone_str(usr, user_id) IN
    [zone |-> ResolveZone(s.tz), raised |-> s.raised]

\* the row the sweeper's query returns for a task: t.* and
\* COALESCE(u.timezone, 'UTC') AS user_timezone
JoinedRow(tks, usr, id) ==
    [id |-> id, user_id |-> tks[id].user_id, chat_id |-> tks[id].chat_id,
     description |-> tks[id].description, due_date |-> tks[id].due_date,
     status |-> tks[id].status, flags |-> tks[id].flags,
     user_timezone |-> IF usr[tks[id].user_id] = NoRow THEN "UTC"
                       ELSE usr[tks[id].user_id]]

\* the WHERE clause without its due_date condition
PendingAny(tks) == {id \in DOMAIN tks : tks[id].status = "pending"}

\* WHERE t.status = 'pending' AND t.due_date IS NOT NULL
PendingWithDue(tks) ==
    {id \in DOMAIN tks : tks[id].status = "pending" /\ tks[id].due_date # NoDue}

\* the orders in which the query (it has no ORDER BY) may return those rows
Orders(ids) ==
    {s \in [1..Cardinality(ids) -> ids] : \A i, j \in DOMAIN s : i # j => s[i] # s[j]}

\* get_pending_tasks_with_due_dates(): the rows in the order ord; [] on sqlite3.Error
get_pending_tasks_with_due_dates(tks, usr, ord, dbOk) ==
    IF dbOk THEN [i \in DOMAIN ord |-> JoinedRow(tks, usr, ord[i])] ELSE <<>>

-----------------------------------------------------------------------------
(* Notification policy inside check_deadlines *)

RECURSIVE InsertByDelta(_, _)
\* stable insertion of e into s, which is sorted by delta
InsertByDelta(s, e) ==
    IF s = <<>> THEN <<e>>
    ELSE IF s[Len(s)].delta <= e.delta THEN Append(s, e)
    ELSE Append(InsertByDelta(SubSeq(s, 1, Len(s) - 1), e), s[Len(s)])

RECURSIVE SortByDelta(_)
SortByDelta(s) ==
    IF s = <<>> THEN <<>>
    ELSE InsertByDelta(SortByDelta(SubSeq(s, 1, Len(s) - 1)), s[Len(s)])

\* the sort left out: the dict's own order, largest offset first
unsorted_intervals ==
    SelectSeq(NOTIFICATION_INTERVALS, LAMBDA e : e.key # final_key)

\* sorted([(k,v) for k,v in NOTIFICATION_INTERVALS.items() if k != final_key],
\*        key=lambda i: i[1][0])
sorted_intervals ==
    SortByDelta(SelectSeq(NOTIFICATION_INTERVALS, LAMBDA e : e.key # final_key))

RECURSIVE ScanIntervalsNoBreak(_, _, _, _)
\* the loop without its break: every threshold that matches is sent
ScanIntervalsNoBreak(ivs, i, remain, row) ==
    IF i > Len(ivs) THEN <<>>
    ELSE (IF remain <= ivs[i].delta /\ ivs[i].key \notin row.flags
          THEN <<ivs[i].key>> ELSE <<>>)
         \o ScanIntervalsNoBreak(ivs, i + 1, remain, row)

RECURSIVE ScanIntervalsReversed(_, _, _, _)
\* the comparison turned round (remain >= int_delta): a threshold is taken
\* while the remaining time is still above its offset
ScanIntervalsReversed(ivs, i, remain, row) ==
    IF i > Len(ivs) THEN <<>>
    ELSE IF remain >= ivs[i].delta /\ ivs[i].key \notin row.flags
    THEN <<ivs[i].key>>
    ELSE ScanIntervalsReversed(ivs, i + 1, remain, row)

RECURSIVE ScanIntervals(_, _, _, _)
\* for int_key, (int_delta, int_desc) in sorted_intervals:
\*     if remain <= int_delta and not task[int_key]: <send>; break
\* the keys for which the loop calls send_message, from position i on
ScanIntervals(ivs, i, remain, row) ==
    IF i > Len(ivs) THEN <<>>
    ELSE IF remain <= ivs[i].delta /\ ivs[i].key \notin row.flags
    THEN <<ivs[i].key>>
    ELSE ScanIntervals(ivs, i + 1, remain, row)

\* the overdue branch without its `continue`: once the final notification is
\* fired the task falls through to the timed thresholds
RowSendsNoContinue(row, now_utc) ==
    LET remain == row.due_date - now_utc IN
    IF row.due_date = NoDue THEN <<>>
    ELSE IF remain <= 0 /\ final_key \notin row.flags THEN <<final_key>>
    ELSE ScanIntervals(sorted_intervals, 1, remain, row)

\* the overdue branch left out: a due task is scanned like any other
RowSendsNoFinal(row, now_utc) ==
    LET remain == row.due_date - now_utc IN
    IF row.due_date = NoDue THEN <<>>
    ELSE ScanIntervals(sorted_intervals, 1, remain, row)

\* the keys check_deadlines calls send_message with for one row, in order
RowSends(row, now_utc) ==
    LET remain == row.due_date - now_utc IN
    IF row.due_date = NoDue THEN <<>>
    ELSE IF remain <= 0
    THEN (IF final_key \notin row.flags THEN <<final_key>> ELSE <<>>)
    ELSE ScanIntervals(sorted_intervals, 1, remain, row)

RECURSIVE Plan(_, _, _)
\* every send of a sweep over rows[i..], in order: each is fixed by the rows
\* read and the now_utc taken at the start of the sweep
Plan(rows, i, now_utc) ==
    IF i > Len(rows) THEN <<>>
    ELSE LET ks == RowSends(rows[i], now_utc)
         IN [j \in 1..Len(ks) |-> [row |-> rows[i], key |-> ks[j]]]
            \o Plan(rows, i + 1, now_utc)

\* msg = f"... {i_desc}!\nID:{tid}\nDesc:{desc}\nDue:{d_loc}({tz.key})" to cid
Compose(row, key) ==
    LET tz == ResolveZone(row.user_timezone) IN
    [chat |-> row.chat_id,
     kind |-> IF key = final_key THEN "DUE" ELSE "Reminder",
     i_desc |-> Interval(key).desc,
     tid |-> row.id,
     desc |-> row.description,
     d_loc |-> format_datetime_local(row.due_date, tz),
     tz_key |-> tz,
     key |-> key]

-----------------------------------------------------------------------------
(* Lifecycle logic (bot.py).  readOk = FALSE is a sqlite3.Error in
   get_task_by_id, which then returns None; dbOk = FALSE is one in the write. *)

\* SELECT * FROM tasks WHERE user_id = ? AND status = ?: the ids of the rows
UserTaskIds(tks, user_id, status) ==
    {id \in DOMAIN tks : tks[id].user_id = user_id /\ tks[id].status = status}

\* ORDER BY due_date ASC, added_date ASC: row a comes before row b.  SQLite
\* sorts NULL before every value, as NoDue is below every due time; rows are
\* inserted one at a time, so that added_date grows with the id.
OrderedBefore(tks, a, b) ==
    \/ tks[a].due_date < tks[b].due_date
    \/ tks[a].due_date = tks[b].due_date /\ a < b

\* get_user_tasks(user_id, status): the ids of the rows in the query's order;
\* [] on sqlite3.Error
get_user_tasks(tks, user_id, status, dbOk) ==
    IF ~dbOk THEN <<>>
    ELSE CHOOSE s \in Orders(UserTaskIds(tks, user_id, status)) :
             \A i, j \in DOMAIN s : i < j => OrderedBefore(tks, s[i], s[j])

\* a datetime with its zone: the wall time it shows and its UTC offset
Aware(wall, zone) == [wall |-> wall, off |-> UtcOffset(zone)]

\* the conversion left out: the datetime is kept as it is
astimezone_forgotten(dt, zone) == dt

\* dt.astimezone(zone): the same instant shown in zone
astimezone(dt, zone) == Aware(dt.wall - dt.off + UtcOffset(zone), zone)

\* an unparseable string taken for the owner's midnight
dateparser_parse_lenient(due_str, zone) ==
    IF due_str = Unparseable THEN <<Aware(1440, zone)>>
    ELSE <<Aware(due_str, zone)>>

\* dateparser.parse(due_date, settings) with TIMEZONE the owner's zone and
\* RETURN_AS_TIMEZONE_AWARE: <<>> for None
dateparser_parse(due_str, zone) ==
    IF due_str = Unparseable THEN <<>> ELSE <<Aware(due_str, zone)>>

\* add_task_logic, id being the rowid the insert would get: the repository
\* after it, the id of the task created (0 for none), the kind of message it
\* returns and the due time the message shows.  due_date_utc.isoformat() is
\* stored and is read back with its offset replaced by UTC, so that the wall
\* time of due_date_utc is what the row holds.
add_task_logic(tks, id, usr, req, dbOk) ==
    IF req.user = 0 \/ req.chat = 0
    THEN [tasks |-> tks, id |-> 0, msg |-> "missing", shown |-> NoDue]
    ELSE LET tz == get_user_tz(usr, req.user) IN
         IF tz.raised
         THEN [tasks |-> tks, id |-> 0, msg |-> "raised", shown |-> NoDue]
         ELSE LET parsed == IF req.due_str = NoDue THEN <<>>
                            ELSE dateparser_parse(req.due_str, tz.zone)
                  due == IF parsed = <<>> THEN NoDue
                         ELSE astimezone(astimezone(parsed[1], tz.zone), "UTC").wall
              IN IF ~dbOk
                 THEN [tasks |-> tks, id |-> 0, msg |-> "failed", shown |-> NoDue]
                 ELSE [tasks |-> add_task(tks, id, req.user, req.chat, req.desc, due),
                       id |-> id,
                       msg |-> IF due # NoDue THEN "added_due"
                               ELSE IF req.due_str # NoDue THEN "added_not_understood"
                               ELSE "added_no_due",
                       shown |-> IF due # NoDue
                                 THEN format_datetime_local(due, tz.zone)
                                 ELSE NoDue]

\* list_tasks_logic(user_id, status_filter): the kind of message it returns and
\* the lines of the list, each with the due time it shows
list_tasks_logic(tks, usr, user_id, status, dbOk) ==
    IF user_id = 0 THEN [msg |-> "missing", lines |-> <<>>]
    ELSE LET tz == get_user_tz(usr, user_id)
             rows == get_user_tasks(tks, user_id, status, dbOk)
         IN IF tz.raised THEN [msg |-> "raised", lines |-> <<>>]
            ELSE IF rows = <<>> THEN [msg |-> "none", lines |-> <<>>]
            ELSE [msg |-> "list",
                  lines |-> [i \in DOMAIN rows |->
                      [id |-> rows[i],
                       description |-> tks[rows[i]].description,
                       due |-> IF tks[rows[i]].due_date = NoDue THEN NoDue
                               ELSE format_datetime_local(tks[rows[i]].due_date,
                                                          tz.zone)]]]

\* the completion that flips the status of a task that is already done
mark_task_toggle_logic(tks, task_id, user, readOk, dbOk) ==
    LET task == IF readOk THEN get_task_by_id(tks, task_id, user) ELSE <<>> IN
    IF task = <<>>
    THEN [tasks |-> tks, msg |-> "notfound", desc |-> "", wrote |-> FALSE]
    ELSE LET to == IF task[1].status = "done" THEN "pending" ELSE "done"
             u == update_task_status(tks, task_id, user, to, dbOk)
         IN [tasks |-> u.tasks, msg |-> IF u.ret THEN "marked" ELSE "failed",
             desc |-> task[1].description, wrote |-> TRUE]

\* mark_task_done_logic: the repository after it, the kind of message it
\* returns, the description the message names, and whether it called
\* update_task_status
mark_task_done_logic(tks, task_id, user, readOk, dbOk) ==
    IF user = 0 \/ task_id = 0
    THEN [tasks |-> tks, msg |-> "missing", desc |-> "", wrote |-> FALSE]
    ELSE LET task == IF readOk THEN get_task_by_id(tks, task_id, user) ELSE <<>> IN
         IF task = <<>>
         THEN [tasks |-> tks, msg |-> "notfound", desc |-> "", wrote |-> FALSE]
         ELSE IF task[1].status = "done"
         THEN [tasks |-> tks, msg |-> "already", desc |-> task[1].description,
               wrote |-> FALSE]
         ELSE LET u == update_task_status(tks, task_id, user, "done", dbOk)
              IN [tasks |-> u.tasks, msg |-> IF u.ret THEN "marked" ELSE "failed",
                  desc |-> task[1].description, wrote |-> TRUE]

\* delete_task_logic: the repository after it, the kind of message it returns
\* ("notdeleted" is 'Failed to delete task N. It might have already been
\* deleted.'), the description the message names ("ID" for f"ID {task_id}"),
\* and the rows the DELETE affected
delete_task_logic(tks, task_id, user, readOk, dbOk) ==
    IF user = 0 \/ task_id = 0
    THEN [tasks |-> tks, msg |-> "missing", desc |-> "", rows |-> 0]
    ELSE LET task == IF readOk THEN get_task_by_id(tks, task_id, user) ELSE <<>>
             d == delete_task(tks, task_id, user, dbOk)
         IN [tasks |-> d.tasks,
             msg |-> IF d.ret THEN "deleted" ELSE "notdeleted",
             desc |-> IF task # <<>> THEN task[1].description ELSE "ID",
             rows |-> IF d.ret THEN 1 ELSE 0]

\* data that cannot be parsed taken for 'delete:1'
button_callback_default_data(tks, usr, data, user, readOk, dbOk) ==
    IF ~data.wellformed
    THEN [tasks |-> delete_task(tks, 1, user, dbOk).tasks, edit |-> "error",
          raised |-> FALSE, reads |-> {"users", "tasks"}]
    ELSE [tasks |-> tks, edit |-> "unknown", raised |-> FALSE,
          reads |-> {"users", "tasks"}]

\* button_callback: the repository after it, the text the message is edited
\* to, whether the handler raised, and the tables it read.  It resolves the
\* presser's zone before it looks at the data.  The 'done' branch starts by
\* logging f"Mark {tid} done user {uid}": neither name is bound, so it raises
\* NameError before it reads the status or calls update_task_status.
button_callback(tks, usr, data, user, readOk, dbOk) ==
    IF get_user_tz(usr, user).raised
    THEN [tasks |-> tks, edit |-> "none", raised |-> TRUE, reads |-> {"users"}]
    ELSE IF ~data.wellformed
    THEN [tasks |-> tks, edit |-> "error", raised |-> FALSE, reads |-> {"users"}]
    ELSE LET task == IF readOk THEN get_task_by_id(tks, data.task_id, user)
                     ELSE <<>>
             out(t, e, r) == [tasks |-> t, edit |-> e, raised |-> r,
                              reads |-> {"users", "tasks"}]
         IN IF task = <<>>
            THEN out(tks, "notfound", FALSE)
            ELSE IF data.action = "done"
            THEN out(tks, "none", TRUE)
            ELSE IF data.action = "delete"
            THEN LET d == delete_task(tks, data.task_id, user, dbOk)
                 IN out(d.tasks, IF d.ret THEN "deleted" ELSE "faildelete", FALSE)
            ELSE out(tks, "unknown", FALSE)

-----------------------------------------------------------------------------
(* State *)

Keys == NOTIFICATION_INTERVAL_KEYS

Fresh(v) == [t \in TaskIds |-> v]

Init ==
    /\ tasks = <<>>
    /\ nextId = 1
    /\ users = [u \in Users |-> NoRow]
    /\ now = 0
    /\ pc = "idle"
    /\ sweepNow = 0
    /\ snapshot = <<>>
    /\ todo = <<>>
    /\ inflight = NoMsg
    /\ sentStatus = "none"
    /\ attempts = Fresh(0)
    /\ outcome = Fresh("none")
    /\ atMark = Fresh("none")
    /\ marks = Fresh({})
    /\ delivered = [t \in TaskIds |-> [k \in Keys |-> 0]]
    /\ faults = 0
    /\ nSweeps = 0
    /\ jobs = 0

\* An operation other than the sweep: the record of a sweep that has ended is
\* dropped, a running sweep keeps its state.
SweepKept ==
    /\ UNCHANGED <<pc, todo, inflight, sentStatus, delivered, faults, nSweeps,
                   jobs>>
    /\ IF pc = "idle"
       THEN /\ sweepNow' = 0
            /\ snapshot' = <<>>
            /\ attempts' = Fresh(0)
            /\ outcome' = Fresh("none")
            /\ atMark' = Fresh("none")
            /\ marks' = Fresh({})
       ELSE UNCHANGED <<sweepNow, snapshot, attempts, outcome, atMark, marks>>

\* the flags of task id that are set in the repository
FlagsOf(tks, id) == IF Exists(tks, id) THEN tks[id].flags ELSE {}

\* status of task id in the repository: "pending", "done", or "deleted"
StatusOf(tks, id) == IF Exists(tks, id) THEN tks[id].status ELSE "deleted"

-----------------------------------------------------------------------------
(* Lifecycle operations and the clock *)

\* add_task_logic once the due string is parsed: inp.due is due_date_utc
Add(inp) ==
    /\ nextId <= MaxTasks
    /\ tasks' = add_task(tasks, lastrowid(tasks, nextId), inp.user, inp.chat,
                         inp.desc, inp.due)
    /\ nextId' = nextId + 1
    /\ UNCHANGED <<users, now>>
    /\ SweepKept

\* add_task_logic for a request as it comes from the conversation
AddRequest(req, dbOk) ==
    /\ nextId <= MaxTasks
    /\ LET r == add_task_logic(tasks, lastrowid(tasks, nextId), users, req, dbOk)
       IN /\ tasks' = r.tasks
          /\ nextId' = IF r.id # 0 THEN nextId + 1 ELSE nextId
    /\ UNCHANGED <<users, now>>
    /\ SweepKept

\* list_tasks_logic: it answers and writes nothing
List(user, status, dbOk) ==
    /\ list_tasks_logic(tasks, users, user, status, dbOk).msg
           \in {"missing", "none", "list"}
    /\ UNCHANGED vars

\* mark_task_done_logic(task_id, user); done_task_command makes the same
\* repository calls.  dbOk = FALSE: the repository call that fails is the
\* read, or the write that follows a read that worked.
Complete(task_id, user, dbOk) ==
    /\ \E readOk \in {dbOk, TRUE} :
          tasks' = mark_task_done_logic(tasks, task_id, user, readOk, dbOk).tasks
    /\ UNCHANGED <<nextId, users, now>>
    /\ SweepKept

\* delete_task_logic(task_id, user); delete_task_command makes the same
\* repository calls
Delete(task_id, user, dbOk) ==
    /\ \E readOk \in {dbOk, TRUE} :
          tasks' = delete_task_logic(tasks, task_id, user, readOk, dbOk).tasks
    /\ UNCHANGED <<nextId, users, now>>
    /\ SweepKept

\* button_callback for a press by user on a message carrying data
ButtonCallback(data, user, dbOk) ==
    /\ \E readOk \in {dbOk, TRUE} :
          tasks' = button_callback(tasks, users, data, user, readOk, dbOk).tasks
    /\ UNCHANGED <<nextId, users, now>>
    /\ SweepKept

\* start without its `if not current_jobs`: every /start registers a job
start_unconditional(jbs, usr, user_id, replyOk, scheduleOk) ==
    IF get_user_timezone_str(usr, user_id).raised \/ ~replyOk THEN jbs
    ELSE IF scheduleOk THEN jbs + 1 ELSE jbs

\* start: the number of jobs named 'global_deadline_check' after it.  It reads
\* the user's timezone and awaits reply_html (either may raise, and the
\* handler ends there); then, with no await in between, it looks for jobs of
\* that name and calls run_repeating when there is none, an exception of
\* which is logged.
start(jbs, usr, user_id, replyOk, scheduleOk) ==
    IF get_user_timezone_str(usr, user_id).raised \/ ~replyOk THEN jbs
    ELSE IF jbs = 0 /\ scheduleOk THEN jbs + 1 ELSE jbs

\* the /start command of a user
Start(user, replyOk, scheduleOk) ==
    /\ jobs' = start(jobs, users, user, replyOk, scheduleOk)
    /\ UNCHANGED <<tasks, nextId, users, now, pc, sweepNow, snapshot, todo,
                   inflight, sentStatus, attempts, outcome, atMark, marks,
                   delivered, faults, nSweeps>>

\* a /start from any user, whatever becomes of its reply and its scheduling
AnyStart ==
    \E u \in Users, replyOk \in BOOLEAN, scheduleOk \in BOOLEAN :
        Start(u, replyOk, scheduleOk)

\* set_timezone_command: rejected unless zoneinfo knows the name
SetTimezone(user, timezone_str) ==
    /\ users' = IF ZoneInfoKnown(timezone_str)
                THEN [users EXCEPT ![user] = timezone_str] ELSE users
    /\ UNCHANGED <<tasks, nextId, now>>
    /\ SweepKept

\* time passes: the clock shows a later instant of insts
Tick(insts) ==
    /\ \E t \in insts : t > now /\ now' = t
    /\ UNCHANGED <<tasks, nextId, users>>
    /\ SweepKept

-----------------------------------------------------------------------------
(* The sweeper: check_deadlines *)

\* The sweep goes on with the sends in rest: it calls send_message for the
\* first and is suspended there, or it has none left and returns.
Proceed(rest, tks, att) ==
    /\ todo' = rest
    /\ IF rest = <<>>
       THEN /\ pc' = "idle"
            /\ inflight' = NoMsg
            /\ sentStatus' = "none"
            /\ attempts' = att
       ELSE /\ pc' = "sending"
            /\ inflight' = Compose(rest[1].row, rest[1].key)
            /\ sentStatus' = StatusOf(tks, rest[1].row.id)
            /\ attempts' = [att EXCEPT ![rest[1].row.id] = Min(@ + 1, 2)]

\* a run of check_deadlines by the job queue, which runs it only for a job
\* registered there, up to its first await: now_utc, the query, the scan; n
\* is the number of sweeps started once this one has
CheckDeadlines(dbOk, n) ==
    /\ jobs > 0
    /\ pc = "idle"
    /\ nSweeps' = n
    /\ \E ord \in Orders(PendingWithDue(tasks)) :
          LET rows == get_pending_tasks_with_due_dates(tasks, users, ord, dbOk) IN
          /\ snapshot' = rows
          /\ Proceed(Plan(rows, 1, now), tasks, Fresh(0))
    /\ sweepNow' = now
    /\ outcome' = Fresh("none")
    /\ atMark' = Fresh("none")
    /\ marks' = Fresh({})
    /\ UNCHANGED <<tasks, nextId, users, now, delivered, faults, jobs>>

\* a run of the repeating job, of which at most cap are followed
SweepStart(cap, dbOk) == nSweeps < cap /\ CheckDeadlines(dbOk, nSweeps + 1)

\* the mark made whether or not the send returned (the mark outside the try)
AfterSendAlways(tks, task_id, key, result, dbOk) ==
    mark_specific_notification_sent(tks, task_id, key, dbOk)

\* what follows `await context.bot.send_message(cid, msg)` inside the try:
\* the mark when the send returned, nothing when it raised
AfterSend(tks, task_id, key, result, dbOk) ==
    IF result = "ok"
    THEN mark_specific_notification_sent(tks, task_id, key, dbOk)
    ELSE [tasks |-> tks, ret |-> FALSE]

\* a send that raised ends the sweep (the exception not caught per task)
RemainingAbort(plan, result) == IF result = "ok" THEN Tail(plan) ELSE <<>>

\* the sends left once the one in flight is over: the except clause logs a
\* send that raised and the loop goes on to the next task
Remaining(plan, result) == Tail(plan)

\* send_message comes back (result "ok": it returned, "raise": it raised) and
\* check_deadlines runs on to its next await or to its end
SendDone(result, dbOk) ==
    /\ pc = "sending"
    /\ dbOk \/ faults < MaxFaults
    /\ faults' = IF dbOk THEN faults ELSE faults + 1
    /\ LET tid == todo[1].row.id
           key == todo[1].key
           m == AfterSend(tasks, tid, key, result, dbOk)
       IN /\ tasks' = m.tasks
          /\ outcome' = [outcome EXCEPT ![tid] =
                            IF result # "ok" THEN "fail"
                            ELSE IF m.ret THEN "ok"
                            ELSE IF dbOk THEN "gone" ELSE "dberr"]
          /\ atMark' = IF result = "ok"
                       THEN [atMark EXCEPT ![tid] = StatusOf(tasks, tid)]
                       ELSE atMark
          /\ marks' = [marks EXCEPT ![tid] =
                            @ \cup (FlagsOf(m.tasks, tid) \ FlagsOf(tasks, tid))]
          /\ delivered' = IF result = "ok"
                          THEN [delivered EXCEPT ![tid][key] = Min(@ + 1, 2)]
                          ELSE delivered
          /\ Proceed(Remaining(todo, result), m.tasks, attempts)
    /\ UNCHANGED <<nextId, users, now, sweepNow, snapshot, nSweeps, jobs>>

SendReturns == \E dbOk \in BOOLEAN : SendDone("ok", dbOk)

SendRaises == SendDone("raise", TRUE)

\* send_message never comes back: check_deadlines stays suspended in its await
\* (the call is awaited bare, with no timeout of its own around it)
SendHangs ==
    /\ pc = "sending"
    /\ pc' = "hung"
    /\ UNCHANGED <<tasks, nextId, users, now, sweepNow, snapshot, todo, inflight,
                   sentStatus, attempts, outcome, atMark, marks, delivered,
                   faults, nSweeps, jobs>>

-----------------------------------------------------------------------------
\* the state once a /start has registered the job, where the job's runs are
\* followed for ever
InitStarted ==
    /\ tasks = <<>>
    /\ nextId = 1
    /\ users = [u \in Users |-> NoRow]
    /\ now = 0
    /\ pc = "idle"
    /\ sweepNow = 0
    /\ snapshot = <<>>
    /\ todo = <<>>
    /\ inflight = NoMsg
    /\ sentStatus = "none"
    /\ attempts = Fresh(0)
    /\ outcome = Fresh("none")
    /\ atMark = Fresh("none")
    /\ marks = Fresh({})
    /\ delivered = [t \in TaskIds |-> [k \in Keys |-> 0]]
    /\ faults = 0
    /\ nSweeps = 0
    /\ jobs = start(0, users, 1, TRUE, TRUE)

Next ==
    \/ AnyStart
    \/ \E inp \in AddInputs : Add(inp)
    \/ \E t \in TaskIds, u \in Users, dbOk \in BOOLEAN : Complete(t, u, dbOk)
    \/ \E t \in TaskIds, u \in Users, dbOk \in BOOLEAN : Delete(t, u, dbOk)
    \/ \E i \in TimezoneInputs : SetTimezone(i.user, i.tz)
    \/ Tick(Instants)
    \/ \E dbOk \in BOOLEAN : SweepStart(MaxSweeps, dbOk)
    \/ SendReturns
    \/ SendRaises

Spec == Init /\ [][Next]_vars

\* One task with a due date, followed from its creation through every
\* threshold, with sweeps at any of the instants.
NextPolicy ==
    \/ AnyStart
    \/ \E inp \in AddInputs : nextId = 1 /\ inp.due # NoDue /\ Add(inp)
    \/ \E i \in TimezoneInputs : SetTimezone(i.user, i.tz)
    \/ Tick(PolicyInstants)
    \/ \E dbOk \in BOOLEAN : SweepStart(MaxPolicySweeps, dbOk)
    \/ SendReturns
    \/ SendRaises

SpecPolicy == Init /\ [][NextPolicy]_vars

\* instants the clock may show where the job runs for ever: 10 minutes before
\* the due time of a task due at 1500, 5 minutes before, and 2 hours after
LiveInstants == {1490, 1495, 1620}

\* One task with a due date and a job that keeps running: time passes, the
\* job keeps running check_deadlines and its query keeps working, and
\* send_message, called again and again, returns in the end.  The sqlite3
\* errors of the mark are transient (at most MaxFaults of them).
NextLive ==
    \/ AnyStart
    \/ \E inp \in AddInputs : nextId = 1 /\ inp.due # NoDue /\ Add(inp)
    \/ \E u \in Users, dbOk \in BOOLEAN : Complete(1, u, dbOk)
    \/ \E u \in Users, dbOk \in BOOLEAN : Delete(1, u, dbOk)
    \/ Tick(LiveInstants)
    \/ \E dbOk \in BOOLEAN : CheckDeadlines(dbOk, 0)
    \/ SendReturns
    \/ SendRaises

SpecLive ==
    /\ InitStarted
    /\ [][NextLive]_vars
    /\ WF_vars(Tick(LiveInstants))
    /\ WF_vars(CheckDeadlines(TRUE, 0))
    /\ SF_vars(SendReturns)

\* The lifecycle operations by every route (conversational logic and
\* commands, buttons), with requests that name no task (id 0), around a single
\* run of the sweeper.
NextLifecycle ==
    \/ AnyStart
    \/ \E inp \in AddInputs : Add(inp)
    \/ \E t \in IdInputs, u \in Users, dbOk \in BOOLEAN : Complete(t, u, dbOk)
    \/ \E t \in IdInputs, u \in Users, dbOk \in BOOLEAN : Delete(t, u, dbOk)
    \/ \E d \in CallbackInputs, u \in Users, dbOk \in BOOLEAN :
          ButtonCallback(d, u, dbOk)
    \/ Tick(Instants)
    \/ \E dbOk \in BOOLEAN : SweepStart(1, dbOk)
    \/ SendReturns
    \/ SendRaises

SpecLifecycle == Init /\ [][NextLifecycle]_vars

\* Tasks added by requests as they come from the conversation (due strings in
\* the owner's zone, parsed or not), the owner's zone changing, around a run
\* of the sweeper.
NextAdd ==
    \/ AnyStart
    \/ \E req \in AddRequests, dbOk \in BOOLEAN : AddRequest(req, dbOk)
    \/ \E u \in Users \cup {0}, st \in {"pending", "done"}, dbOk \in BOOLEAN :
           List(u, st, dbOk)
    \/ \E t \in IdInputs, u \in Users, dbOk \in BOOLEAN : Complete(t, u, dbOk)
    \/ \E t \in IdInputs, u \in Users, dbOk \in BOOLEAN : Delete(t, u, dbOk)
    \/ \E i \in TimezoneInputs : SetTimezone(i.user, i.tz)
    \/ Tick(Instants)
    \/ \E dbOk \in BOOLEAN : SweepStart(1, dbOk)
    \/ SendReturns
    \/ SendRaises

SpecAdd == Init /\ [][NextAdd]_vars

\* what the timezone column of a row of users may hold when the process
\* starts on an existing tasks.db: nothing (no row), a name zoneinfo knows, a
\* name it does not know, the empty string.  The column is TEXT NOT NULL and
\* a row outlives the process and the tz database that validated it.
StoredZones == {NoRow, "Asia/Tashkent", "Mars/Phobos", ""}

InitZones ==
    /\ tasks = <<>>
    /\ nextId = 1
    /\ users \in [Users -> StoredZones]
    /\ now = 0
    /\ pc = "idle"
    /\ sweepNow = 0
    /\ snapshot = <<>>
    /\ todo = <<>>
    /\ inflight = NoMsg
    /\ sentStatus = "none"
    /\ attempts = Fresh(0)
    /\ outcome = Fresh("none")
    /\ atMark = Fresh("none")
    /\ marks = Fresh({})
    /\ delivered = [t \in TaskIds |-> [k \in Keys |-> 0]]
    /\ faults = 0
    /\ nSweeps = 0
    /\ jobs = 0

\* The bot started on a users table written earlier: requests, lists, zone
\* changes and a run of the sweeper.
NextZones ==
    \/ AnyStart
    \/ \E req \in AddRequests : AddRequest(req, TRUE)
    \/ \E u \in Users : List(u, "pending", TRUE)
    \/ \E data \in CallbackInputs, u \in Users : ButtonCallback(data, u, TRUE)
    \/ \E i \in TimezoneInputs : SetTimezone(i.user, i.tz)
    \/ Tick(Instants)
    \/ SweepStart(1, TRUE)
    \/ SendReturns
    \/ SendRaises

SpecZones == InitZones /\ [][NextZones]_vars

\* Two tasks and the job's runs, where a send may hang: time passes, the job
\* runs check_deadlines, and every send that does not hang returns or raises.
NextHang ==
    \/ AnyStart
    \/ \E inp \in AddInputs : inp.due # NoDue /\ Add(inp)
    \/ Tick(Instants)
    \/ \E dbOk \in BOOLEAN : SweepStart(MaxSweeps, dbOk)
    \/ SendReturns
    \/ SendRaises
    \/ SendHangs

SpecHang ==
    /\ InitStarted
    /\ [][NextHang]_vars
    /\ WF_vars(Tick(Instants))
    /\ WF_vars(SweepStart(MaxSweeps, TRUE))
    /\ WF_vars(SendReturns \/ SendRaises)

-----------------------------------------------------------------------------
(* Properties *)

\* the ids of the rows the sweep read
SnapIds == {snapshot[i].id : i \in DOMAIN snapshot}

\* a sweep that read rows has ended and nothing has happened since
SweepOver == pc = "idle" /\ snapshot # <<>>

\* the timed thresholds, and those whose offset covers the remaining time of
\* row at instant n and whose flag is not set in row
TimedIntervals ==
    {NOTIFICATION_INTERVALS[i] : i \in DOMAIN NOTIFICATION_INTERVALS}
        \ {Interval(final_key)}

Eligible(row, n) ==
    {e \in TimedIntervals : e.delta >= row.due_date - n /\ e.key \notin row.flags}

\* C1: Sweep idempotence.  When a sweep in which every delivery and every mark
\* succeeded has ended and check_deadlines runs again at once, with no time
\* elapsed, the second run has no send to make for any task of the first run
\* (and so sets no flag).
C1_SweepIdempotent ==
    [][ ( /\ SweepOver
          /\ nSweeps' = nSweeps + 1
          /\ now = sweepNow
          /\ \A t \in SnapIds : outcome[t] \in {"none", "ok"} )
        => \A i \in DOMAIN todo' : todo'[i].row.id \notin SnapIds ]_vars

\* what the policy of C2 selects for a row at instant n, as a sequence of at
\* most one key: pick(el) names the timed threshold taken among the eligible
PolicyChoice(row, n, pick(_)) ==
    IF row.due_date - n <= 0
    THEN (IF final_key \notin row.flags THEN <<final_key>> ELSE <<>>)
    ELSE IF Eligible(row, n) = {} THEN <<>>
    ELSE <<pick(Eligible(row, n)).key>>

LargestOffset(el) == CHOOSE e \in el : \A f \in el : f.delta <= e.delta

SmallestOffset(el) == CHOOSE e \in el : \A f \in el : e.delta <= f.delta

C3_FifteenMinuteReminder ==
    \A i \in DOMAIN snapshot :
        LET row == snapshot[i]
            t == row.id
        IN (row.due_date - sweepNow > 0 /\ row.due_date - sweepNow <= 15
                /\ row.flags = {})
           => /\ attempts[t] <= 1
              /\ SweepOver => attempts[t] = 1
              /\ (pc = "sending" /\ inflight.tid = t) =>
                    /\ inflight.chat = row.chat_id
                    /\ inflight.kind = "Reminder"
                    /\ inflight.i_desc = "in less than 15 minutes"
                    /\ inflight.desc = row.description
                    /\ inflight.d_loc =
                          row.due_date
                            + (IF row.user_timezone = "Asia/Tashkent" THEN 300 ELSE 0)
                    /\ inflight.tz_key = row.user_timezone
              /\ marks[t] \subseteq {"notified_15m"}
              /\ FlagsOf(tasks, t) \subseteq {"notified_15m"}
              /\ (outcome[t] = "ok" /\ Exists(tasks, t)) =>
                    tasks[t].flags = {"notified_15m"}

\* C3 witness: the 15-minute reminder of a task due in 10 minutes, no flag
\* set, owner in Asia/Tashkent, is in flight with the due time 1500 UTC
\* rendered as 1800 local.
C3_Witness ==
    /\ pc = "sending"
    /\ todo[1].row.flags = {}
    /\ todo[1].row.due_date - sweepNow = 10
    /\ inflight.key = "notified_15m"
    /\ inflight.tz_key = "Asia/Tashkent"
    /\ inflight.d_loc = 1800

\* C4: for a row whose due time is past: if the final flag is not set the
\* sweep sends one message, with the due/overdue phrasing, and when the send
\* and the mark succeed notified_final_due is set; if the final flag is set
\* the sweep sends nothing for the task, whatever timed flags are unset.
C4_FinalDueOnce ==
    \A i \in DOMAIN snapshot :
        LET row == snapshot[i]
            t == row.id
        IN row.due_date - sweepNow <= 0
           => IF final_key \notin row.flags
              THEN /\ attempts[t] <= 1
                   /\ SweepOver => attempts[t] = 1
                   /\ (pc = "sending" /\ inflight.tid = t) =>
                         /\ inflight.chat = row.chat_id
                         /\ inflight.kind = "DUE"
                         /\ inflight.i_desc = "NOW or is OVERDUE"
                         /\ inflight.key = final_key
                   /\ marks[t] \subseteq {final_key}
                   /\ (outcome[t] = "ok" /\ Exists(tasks, t)) =>
                         final_key \in tasks[t].flags
              ELSE attempts[t] = 0 /\ marks[t] = {}

\* C4 witness: a later sweep has ended over an overdue task whose final flag
\* was set by an earlier sweep and whose timed flags are all unset, and it
\* sent nothing.
C4_Witness ==
    /\ SweepOver
    /\ nSweeps = 2
    /\ \E i \in DOMAIN snapshot :
          /\ snapshot[i].flags = {final_key}
          /\ delivered[snapshot[i].id][final_key] = 1
          /\ attempts[snapshot[i].id] = 0

\* C5: within one sweep each task gets at most one send_message call and at
\* most one of its flags is set.
C5_OneAttemptOneFlag ==
    \A t \in TaskIds : attempts[t] <= 1 /\ Cardinality(marks[t]) <= 1

\* C5 witness: a sweep has ended over a task with 10 minutes left and no flag
\* set, so that all six timed thresholds matched: one send, one flag.
C5_Witness ==
    /\ SweepOver
    /\ \E i \in DOMAIN snapshot :
          /\ snapshot[i].flags = {}
          /\ Cardinality(Eligible(snapshot[i], sweepNow)) = 6
          /\ attempts[snapshot[i].id] = 1
          /\ Cardinality(marks[snapshot[i].id]) = 1

\* C6: the sweeper never notifies a task that is done or deleted: whenever it
\* calls send_message for a task, that task is in the repository and pending.
C6_NeverNotifyDoneOrDeleted == pc = "sending" => sentStatus = "pending"

\* C7: deliver-then-mark.  A flag of a task is set only in the step in which
\* the send of that task's message for that very threshold returns, and is
\* the only flag set; a send that raises changes no flag of the task, and a
\* task whose send raised has no flag set by that sweep.
C7_MarkOnlyAfterDelivery ==
    [][ \A t \in TaskIds :
          /\ (FlagsOf(tasks', t) \ FlagsOf(tasks, t) # {}) =>
                /\ pc = "sending"
                /\ inflight.tid = t
                /\ outcome'[t] = "ok"
                /\ delivered'[t][inflight.key] >= 1
                /\ FlagsOf(tasks', t) \ FlagsOf(tasks, t) = {inflight.key}
          /\ (pc = "sending" /\ inflight.tid = t /\ outcome'[t] = "fail") =>
                FlagsOf(tasks', t) = FlagsOf(tasks, t)
          /\ outcome[t] = "fail" => marks[t] = {} ]_vars

\* C7 witness: a sweep over two tasks has ended; the send of the first raised
\* and left its flags as they were, the send of the second returned and its
\* flag was set.
C7_Witness ==
    /\ SweepOver
    /\ Len(snapshot) = 2
    /\ outcome[snapshot[1].id] = "fail"
    /\ FlagsOf(tasks, snapshot[1].id) = {}
    /\ outcome[snapshot[2].id] = "ok"
    /\ FlagsOf(tasks, snapshot[2].id) = {"notified_15m"}

\* the key the policy selects for the row of task t in the sweep
SelectedKey(t) ==
    LET row == CHOOSE r \in {snapshot[i] : i \in DOMAIN snapshot} : r.id = t
    IN PolicyChoice(row, sweepNow, SmallestOffset)

\* the row the sweep read for task t
RowOf(t) == CHOOSE r \in {snapshot[i] : i \in DOMAIN snapshot} : r.id = t

\* C8: per-task failure isolation.  When a sweep has ended, every task it had
\* a threshold to send for got its send, whatever happened to the others;
\* and if the send raised for task a and returned for task b, whose mark was
\* committed, b's selected threshold is marked and no flag of a has changed.
C8_FailureIsolation ==
    SweepOver =>
        /\ \A t \in SnapIds :
              SelectedKey(t) # <<>> => attempts[t] = 1 /\ outcome[t] # "none"
        /\ \A a, b \in SnapIds :
              (outcome[a] = "fail" /\ outcome[b] = "ok") =>
                 /\ <<CHOOSE k \in marks[b] : TRUE>> = SelectedKey(b)
                 /\ Cardinality(marks[b]) = 1
                 /\ Exists(tasks, b) => SelectedKey(b)[1] \in tasks[b].flags
                 /\ marks[a] = {}
                 /\ Exists(tasks, a) => tasks[a].flags = RowOf(a).flags

\* C8 witness: a sweep over two tasks has ended; the send for the task
\* processed first raised, the send for the task processed second returned
\* and its threshold is marked.
C8_Witness ==
    /\ SweepOver
    /\ Len(snapshot) = 2
    /\ outcome[snapshot[1].id] = "fail"
    /\ outcome[snapshot[2].id] = "ok"
    /\ marks[snapshot[2].id] = {"notified_15m"}
    /\ marks[snapshot[1].id] = {}
    /\ snapshot[1].id = 2

\* C9: no (task, threshold) pair has its notification delivered more than
\* once.
C9_AtMostOnceDelivered ==
    \A t \in TaskIds : \A k \in Keys : delivered[t][k] <= 1

\* C10 as claimed: a mark that met no sqlite3 error returned True if and only
\* if the task was in the repository and pending when it was called; for a
\* task that was done by then it returned False and set no flag.
C10_TrueIffPending ==
    \A t \in TaskIds :
        outcome[t] \in {"ok", "gone"} =>
            /\ (outcome[t] = "ok") <=> (atMark[t] = "pending")
            /\ atMark[t] = "done" => marks[t] = {}

\* C10, amended: a mark returned True if and only if it met no sqlite3 error
\* and the task was in the repository, pending or done, when it was called;
\* it then set exactly one flag, and otherwise none: it returned False for a
\* deleted task only (or on a sqlite3 error).
C10_TrueIffExists ==
    \A t \in TaskIds :
        /\ outcome[t] = "ok" =>
              atMark[t] \in {"pending", "done"} /\ Cardinality(marks[t]) = 1
        /\ outcome[t] = "gone" => atMark[t] = "deleted" /\ marks[t] = {}
        /\ outcome[t] = "dberr" => marks[t] = {}

\* C10 witness: a task was completed between the sweep's read and the mark:
\* the mark returned True and the flag is set on the done task.
C10_Witness ==
    \E t \in TaskIds :
        /\ outcome[t] = "ok"
        /\ atMark[t] = "done"
        /\ Exists(tasks, t)
        /\ tasks[t].status = "done"
        /\ tasks[t].flags = {"notified_15m"}
        /\ RowOf(t).status = "pending"

\* C11: when the send returns for a task that was deleted after the sweep read
\* it, the mark changes nothing in the repository (no row created, none
\* altered), no error reaches the sweep (the mark returns False), and the
\* sweep goes on: it calls send_message for the next task it has a threshold
\* for, or ends when there is none.
C11_DeletedBeforeMark ==
    [][ ( /\ pc = "sending"
          /\ ~Exists(tasks, inflight.tid)
          /\ delivered' # delivered )
        => /\ tasks' = tasks
           /\ outcome'[inflight.tid] \in {"gone", "dberr"}
           /\ marks'[inflight.tid] = {}
           /\ todo' = Tail(todo)
           /\ IF Len(todo) > 1
              THEN /\ pc' = "sending"
                   /\ inflight'.tid = todo[2].row.id
                   /\ attempts'[todo[2].row.id] = 1
              ELSE pc' = "idle" ]_vars

\* C11 witness: the first task of a sweep over two tasks was deleted during
\* its send; the mark found no row, and the second task's message is in
\* flight.
C11_Witness ==
    /\ pc = "sending"
    /\ Len(snapshot) = 2
    /\ outcome[snapshot[1].id] = "gone"
    /\ ~Exists(tasks, snapshot[1].id)
    /\ inflight.tid = snapshot[2].id
    /\ attempts[snapshot[2].id] = 1

\* C12: monotonicity.  In every step (add, complete, delete, set-timezone,
\* clock, sweep) a flag that is set on a task of the repository is still set
\* after the step if the task is still there.
C12_FlagsMonotone ==
    [][ \A t \in TaskIds :
          (Exists(tasks, t) /\ Exists(tasks', t)) =>
              tasks[t].flags \subseteq tasks'[t].flags ]_vars

\* C12 witness: a task on which two sweeps set two flags has then been
\* completed, and both flags are still set.
C12_Witness ==
    \E t \in DOMAIN tasks :
        /\ tasks[t].status = "done"
        /\ tasks[t].flags = {"notified_15m", "notified_1h"}
        /\ nSweeps = 2
        /\ pc = "idle"
        /\ snapshot = <<>>

\* C13: a task without a due date has no flag set, was never delivered a
\* notification, is not among the rows the sweep read and is not the task of
\* the message in flight.
C13_NoDueNeverNotified ==
    \A t \in DOMAIN tasks :
        tasks[t].due_date = NoDue =>
            /\ tasks[t].flags = {}
            /\ \A k \in Keys : delivered[t][k] = 0
            /\ t \notin SnapIds
            /\ attempts[t] = 0
            /\ pc = "sending" => inflight.tid # t

\* C13 witness: a sweep has ended that delivered a reminder to a task with a
\* due date while a pending task without a due date was in the repository.
C13_Witness ==
    /\ SweepOver
    /\ \E t \in SnapIds : outcome[t] = "ok"
    /\ \E t \in DOMAIN tasks :
          /\ tasks[t].due_date = NoDue
          /\ tasks[t].status = "pending"
          /\ t = 1

\* C14: in the step in which a flag is set on a task, the task's remaining
\* time on the clock of that moment (not the now_utc read when the sweep
\* started) is at most the offset of the flag's threshold, which is 0 for the
\* terminal threshold.
C14_RemainingWithinOffset ==
    [][ \A t \in TaskIds : \A k \in Keys :
          (k \in FlagsOf(tasks', t) /\ k \notin FlagsOf(tasks, t)) =>
              tasks'[t].due_date - now' <= Interval(k).delta ]_vars

\* C14 witness: a sweep that started with 12 hours left has set the 12-hour
\* flag when the send returned, 10 minutes before the due time.
C14_Witness ==
    /\ SweepOver
    /\ sweepNow = 780
    /\ now = 1490
    /\ \E t \in SnapIds :
          /\ marks[t] = {"notified_12h"}
          /\ Exists(tasks, t)
          /\ tasks[t].due_date = 1500

\* a step of check_deadlines: its start, or its resumption after a send
SweepStep == nSweeps' # nSweeps \/ todo' # todo

\* C15: a step of the sweep leaves the set of tasks and the status of every
\* task as they were, whether the send returned or raised and whether the
\* mark was committed, found no row or met a sqlite3 error.
C15_SweepKeepsStatus ==
    [][ SweepStep =>
          /\ DOMAIN tasks' = DOMAIN tasks
          /\ \A t \in DOMAIN tasks : tasks'[t].status = tasks[t].status ]_vars

\* C15 witness: a sweep has delivered and marked the reminders of two tasks,
\* and both are still pending.
C15_Witness ==
    /\ SweepOver
    /\ Len(snapshot) = 2
    /\ \A t \in SnapIds :
          /\ outcome[t] = "ok"
          /\ Exists(tasks, t)
          /\ tasks[t].status = "pending"
          /\ marks[t] = {"notified_15m"}

\* the timed thresholds whose offset covers the remaining time r
Covering(r) == {e \in TimedIntervals : e.delta >= r}

\* the remaining time of a task due at d is in the same range at instants m
\* and n: due or not due at both, and the same thresholds cover it
SameRange(d, m, n) ==
    /\ (d - m <= 0) <=> (d - n <= 0)
    /\ Covering(d - m) = Covering(d - n)

\* C16: failed delivery is retried and succeeds in the end.  A task with a due
\* date, for as long as it stays pending, has its terminal flag set in the
\* end (time passes, the job keeps sweeping, and send_message returns in the
\* end); and when a sweep in which the send for a task raised has ended and
\* the next sweep reads the task with its remaining time in the same range,
\* that sweep sends for the task, and for the same threshold.
C16_RetryUntilDelivered ==
    /\ Exists(tasks, 1)
         ~> (StatusOf(tasks, 1) # "pending" \/ final_key \in FlagsOf(tasks, 1))
    /\ [][ \A t \in SnapIds :
              ( /\ SweepOver
                /\ outcome[t] = "fail"
                /\ snapshot' # <<>>
                /\ SameRange(RowOf(t).due_date, sweepNow, now) )
              => \E i \in DOMAIN todo' :
                    /\ todo'[i].row.id = t
                    /\ <<todo'[i].key>> = SelectedKey(t) ]_vars

\* C16 witness: a sweep over an overdue task has ended, and its send of the
\* terminal notification raised; the task is still pending, its terminal flag
\* is not set, and a sweep at this instant selects the terminal threshold
\* again.
C16_Witness ==
    /\ SweepOver
    /\ outcome[1] = "fail"
    /\ now = 1620
    /\ sweepNow = 1620
    /\ Exists(tasks, 1)
    /\ tasks[1].status = "pending"
    /\ tasks[1].flags = {"notified_15m"}
    /\ RowSends(JoinedRow(tasks, users, 1), now) = <<final_key>>

\* C17: a send that raises or never returns for one task does not keep the
\* sweep from the next task: whenever the sweep is in a send and has another
\* task to send to after it, it gets to call send_message for that task.
C17_HungSendDoesNotBlock ==
    \A t \in TaskIds :
        (pc # "idle" /\ Len(todo) >= 2 /\ todo[2].row.id = t)
            ~> (pc # "idle" /\ todo[1].row.id = t /\ attempts[t] = 1)

\* a task with id t belongs to owner u
Owns(tks, u, t) == \E i \in DOMAIN tks : i = t /\ tks[i].user_id = u

\* C18: Complete(owner, task_id) for a task id that is given (0 stands for an
\* argument left out), the repository calls meeting no sqlite3 error.  If no task with that id belongs to that owner: the not-found
\* message, no update issued, no task changed.  If the task is done: the
\* 'already done' message, no update issued, no task changed.  Otherwise: the
\* confirmation naming the task, and the repository differs in the status of
\* that task only, which is done.  And a step that completes a task changes
\* nothing else in the repository.
C18_Complete ==
    /\ [](\A t \in TaskIds, u \in Users :
            LET r == mark_task_done_logic(tasks, t, u, TRUE, TRUE) IN
            IF ~Owns(tasks, u, t)
            THEN r.msg = "notfound" /\ ~r.wrote /\ r.tasks = tasks
            ELSE IF tasks[t].status = "done"
            THEN r.msg = "already" /\ ~r.wrote /\ r.tasks = tasks
            ELSE /\ r.msg = "marked"
                 /\ r.desc = tasks[t].description
                 /\ r.tasks = [tasks EXCEPT ![t].status = "done"])
    /\ [][ \A t \in TaskIds :
              (StatusOf(tasks, t) = "pending" /\ StatusOf(tasks', t) = "done")
                  => tasks' = [tasks EXCEPT ![t].status = "done"] ]_vars

\* C18 witness: task 1 has been completed by its owner, user 1; task 2 is
\* user 2's and pending: completing 1 again answers 'already done', and user 1
\* completing task 2 gets the not-found message.
C18_Witness ==
    /\ Exists(tasks, 1) /\ Exists(tasks, 2)
    /\ tasks[1].status = "done" /\ tasks[1].user_id = 1
    /\ tasks[2].status = "pending" /\ tasks[2].user_id = 2
    /\ mark_task_done_logic(tasks, 1, 1, TRUE, TRUE).msg = "already"
    /\ mark_task_done_logic(tasks, 2, 1, TRUE, TRUE).msg = "notfound"

\* C19: Delete(owner, task_id) for a task id that is given (0 stands for an
\* argument left out), the repository calls meeting no sqlite3 error.  If no task with that id belongs to that owner: the 'failed to delete, it
\* might have already been deleted' message, zero rows affected, no task
\* changed.  Otherwise: the confirmation naming the task's description, the
\* repository loses that row only, and get, list and the sweeper's query no
\* longer return the task.  And an id that has been given out and is not in
\* the repository never comes back.
C19_Delete ==
    /\ [](\A t \in TaskIds, u \in Users :
            LET r == delete_task_logic(tasks, t, u, TRUE, TRUE) IN
            IF ~Owns(tasks, u, t)
            THEN r.msg = "notdeleted" /\ r.rows = 0 /\ r.tasks = tasks
            ELSE /\ r.msg = "deleted"
                 /\ r.desc = tasks[t].description
                 /\ r.rows = 1
                 /\ r.tasks = [i \in DOMAIN tasks \ {t} |-> tasks[i]]
                 /\ \A v \in Users : get_task_by_id(r.tasks, t, v) = <<>>
                 /\ \A v \in Users, st \in {"pending", "done"} :
                       t \notin UserTaskIds(r.tasks, v, st)
                 /\ t \notin PendingWithDue(r.tasks))
    /\ [][ \A t \in TaskIds :
              (t < nextId /\ ~Exists(tasks, t)) =>
                  (~Exists(tasks', t) /\ t < nextId') ]_vars

\* C19 witness: task 1 has been deleted and a task added after that: it is
\* task 2, and no task 1 is in the repository.
C19_Witness ==
    /\ nextId = 3
    /\ ~Exists(tasks, 1)
    /\ Exists(tasks, 2)
    /\ \A v \in Users : get_task_by_id(tasks, 1, v) = <<>>

\* C20: a task enters the repository pending, and a task that is done is not
\* pending after any step (logic and command, button, sweep, clock).
C20_StatusNeverReverts ==
    [][ \A t \in TaskIds :
          /\ (~Exists(tasks, t) /\ Exists(tasks', t)) =>
                tasks'[t].status = "pending"
          /\ StatusOf(tasks, t) = "done" => StatusOf(tasks', t) # "pending" ]_vars

\* C20 witness: a sweep has delivered and marked the reminder of task 2 while
\* task 1 was done, and task 1 is still done.
C20_Witness ==
    /\ SweepOver
    /\ SnapIds = {2}
    /\ outcome[2] = "ok"
    /\ Exists(tasks, 1)
    /\ tasks[1].status = "done"
    /\ tasks[1].due_date # NoDue

\* C21: Add with an empty description creates no task: no task of the
\* repository has an empty description.
C21_EmptyDescriptionRejected ==
    \A t \in DOMAIN tasks : tasks[t].description # ""

\* C22: List(owner, status) when no repository call fails: the list holds
\* exactly the owner's tasks with that status, tasks with a due date first in
\* ascending due order, tasks without one last, ties in creation order; when
\* there is none, the 'no tasks' message is returned.
C22_ListOrdered ==
    \A u \in Users, st \in {"pending", "done"} :
        LET l == list_tasks_logic(tasks, users, u, st, TRUE)
            ids == UserTaskIds(tasks, u, st)
            due(i) == tasks[l.lines[i].id].due_date
        IN /\ {l.lines[i].id : i \in DOMAIN l.lines} = ids
           /\ Len(l.lines) = Cardinality(ids)
           /\ (ids = {}) <=> (l.msg = "none")
           /\ \A i, j \in DOMAIN l.lines : i < j =>
                  \/ due(i) # NoDue /\ (due(j) = NoDue \/ due(i) < due(j))
                  \/ due(i) = due(j) /\ l.lines[i].id < l.lines[j].id

\* C23: a press of the button 'done:<id>' by the owner of a pending task, when
\* no repository call fails, leaves the repository as Complete does (the task
\* done) and edits the message to the DONE text, the handler ending normally.
C23_DoneButtonCompletes ==
    \A t \in DOMAIN tasks :
        tasks[t].status = "pending" =>
            LET b == button_callback(tasks, users,
                         [wellformed |-> TRUE, action |-> "done", task_id |-> t],
                         tasks[t].user_id, TRUE, TRUE)
                m == mark_task_done_logic(tasks, t, tasks[t].user_id, TRUE, TRUE)
            IN /\ ~b.raised
               /\ b.edit = "done"
               /\ b.tasks = m.tasks
               /\ b.tasks[t].status = "done"

\* C24: a press of 'done:<id>' for a task of the presser that is already done
\* or is absent, and a press of 'delete:<id>' for a task that is absent, when
\* no repository call fails: the handler ends without raising, edits the
\* message, and changes no task.
C24_GracefulTerminal ==
    \A t \in IdInputs \ {0}, u \in Users, a \in {"done", "delete"} :
        LET task == get_task_by_id(tasks, t, u)
            b == button_callback(tasks, users,
                     [wellformed |-> TRUE, action |-> a, task_id |-> t],
                     u, TRUE, TRUE)
        IN (\/ task = <<>>
            \/ a = "done" /\ task # <<>> /\ task[1].status = "done")
           => /\ ~b.raised
              /\ b.edit # "none"
              /\ b.tasks = tasks

\* C25: when the repository calls of a lifecycle operation fail, the operation
\* answers with a failure message that is neither the 'no tasks' answer nor
\* the answer for a task that is not found, and changes no task.  Stated for
\* an owner u of a pending task t, who lists, completes t, deletes t, and
\* adds a task.
C25_FailureReported ==
    \A t \in DOMAIN tasks :
        tasks[t].status = "pending" =>
            LET u == tasks[t].user_id
                absent == CHOOSE n \in 1..(MaxTasks + 1) : n \notin DOMAIN tasks
                l == list_tasks_logic(tasks, users, u, "pending", FALSE)
                m == mark_task_done_logic(tasks, t, u, FALSE, FALSE)
                d == delete_task_logic(tasks, t, u, FALSE, FALSE)
            IN /\ l.msg \notin {"none", "list"}
               /\ m.msg \notin {"notfound", "already", "marked"}
               /\ m.tasks = tasks
               /\ d.msg \notin {"deleted",
                                delete_task_logic(tasks, absent, u, TRUE, TRUE).msg}
               /\ d.tasks = tasks
               /\ \A req \in AddRequests :
                      req.user # 0 =>
                          LET a == add_task_logic(tasks, nextId, users, req, FALSE)
                          IN a.msg = "failed" /\ a.tasks = tasks

\* C26: an Add whose due string cannot be parsed, when the insert succeeds,
\* creates the task pending, without due date and with no flag set, and its
\* confirmation says the date was not understood; such a task (the requests
\* with this description all carry an unparseable string) keeps no due date
\* and is never read, attempted or notified by the sweeper.
C26_UnparseableDueKept ==
    /\ \A req \in AddRequests :
           req.due_str = Unparseable /\ req.user # 0 /\ nextId <= MaxTasks =>
               LET r == add_task_logic(tasks, nextId, users, req, TRUE)
               IN /\ r.msg = "added_not_understood"
                  /\ r.id = nextId
                  /\ r.tasks[nextId].status = "pending"
                  /\ r.tasks[nextId].due_date = NoDue
                  /\ r.tasks[nextId].flags = {}
                  /\ r.tasks[nextId].description = req.desc
    /\ \A t \in DOMAIN tasks :
           tasks[t].description = "call" =>
               /\ tasks[t].due_date = NoDue
               /\ tasks[t].flags = {}
               /\ t \notin SnapIds
               /\ attempts[t] = 0
               /\ \A k \in Keys : delivered[t][k] = 0

\* a task added with an unparseable due string is pending when a sweep that
\* notified the task added after it has ended
C26_Witness ==
    /\ SweepOver
    /\ \E t \in SnapIds : t = 2 /\ outcome[t] = "ok"
    /\ Exists(tasks, 1)
    /\ tasks[1].description = "call"
    /\ tasks[1].status = "pending"

\* C27: timezone resolution never raises: get_user_tz returns the stored zone
\* when zoneinfo knows it and UTC when there is no row or the stored string
\* is empty or unknown, and so does the sweeper's resolution for the rows of
\* the user's tasks.
C27_ResolutionNeverRaises ==
    \A u \in Users :
        LET expected == IF users[u] # NoRow /\ ZoneInfoKnown(users[u])
                        THEN users[u] ELSE "UTC"
        IN /\ ~get_user_tz(users, u).raised
           /\ get_user_tz(users, u).zone = expected
           /\ \A t \in DOMAIN tasks :
                  tasks[t].user_id = u =>
                      ResolveZone(JoinedRow(tasks, users, t).user_timezone)
                          = expected

\* C28: in the step in which an Add with a parseable due string creates a
\* task, the row holds the instant the string names in the owner's zone (its
\* local wall time less the zone's UTC offset), the sweeper's row for the task
\* holds the same instant, and the list shows the task, in the owner's zone,
\* with the local time that was given.
C28_DueRoundTrip ==
    [][\A req \in AddRequests :
          (/\ req.due_str \notin {NoDue, Unparseable}
           /\ nextId' = nextId + 1
           /\ tasks'[nextId].description = req.desc)
          => LET zone == get_user_tz(users, req.user).zone
                 instant == req.due_str - UtcOffset(zone)
                 l == list_tasks_logic(tasks', users', req.user, "pending", TRUE)
             IN /\ tasks'[nextId].due_date = instant
                /\ JoinedRow(tasks', users', nextId).due_date = instant
                /\ format_datetime_local(tasks'[nextId].due_date, zone)
                       = req.due_str
                /\ \E i \in DOMAIN l.lines :
                       l.lines[i].id = nextId /\ l.lines[i].due = req.due_str
      ]_vars

\* a task asked for 1800 local by an owner at UTC+5 is stored as 1500 UTC and
\* listed as 1800
C28_Witness ==
    \E t \in DOMAIN tasks :
        /\ tasks[t].description = "thesis"
        /\ tasks[t].status = "pending"
        /\ tasks[t].due_date = 1500
        /\ UtcOffset(get_user_tz(users, tasks[t].user_id).zone) = 300
        /\ \E i \in DOMAIN list_tasks_logic(tasks, users, 1, "pending", TRUE).lines :
               LET line == list_tasks_logic(tasks, users, 1, "pending", TRUE).lines[i]
               IN line.id = t /\ line.due = 1800

\* callback data that is None or not of the form '<action>:<integer id>'
MalformedData == [wellformed |-> FALSE, action |-> "", task_id |-> 0]

SendBegins == SweepStep /\ todo' # <<>>

\* C30: once the due time of a task has passed on the clock, a
\* send that the sweeper begins for it is the terminal one.
C30_NoTimedAfterDue ==
    [][ SendBegins =>
          (todo'[1].row.due_date < now' => todo'[1].key = final_key) ]_vars

\* C31: the step in which a flag k is set on a task t sets that flag alone:
\* the set of tasks, every other task, and every other field of t are as they
\* were, and t is the task the sweep read under that id (same owner, chat,
\* description and due date); an insert gets an id no task has had before,
\* so that every id in the repository is below the next id to be issued.
C31_MarkTouchesOneFlag ==
    /\ [](\A i \in DOMAIN tasks : i < nextId)
    /\ [][ /\ \A t \in TaskIds : \A k \in Keys :
               (k \in FlagsOf(tasks', t) /\ k \notin FlagsOf(tasks, t)) =>
                   /\ DOMAIN tasks' = DOMAIN tasks
                   /\ \A i \in DOMAIN tasks \ {t} : tasks'[i] = tasks[i]
                   /\ tasks'[t] = [tasks[t] EXCEPT !.flags = @ \cup {k}]
                   /\ t \in SnapIds
                   /\ RowOf(t).user_id = tasks[t].user_id
                   /\ RowOf(t).chat_id = tasks[t].chat_id
                   /\ RowOf(t).description = tasks[t].description
                   /\ RowOf(t).due_date = tasks[t].due_date
            /\ \A n \in DOMAIN tasks' \ DOMAIN tasks :
                   n = nextId /\ nextId' = nextId + 1 ]_vars

\* a sweep read task 1 and sent its reminder; the task was deleted and
\* another one created during the send, so that the mark found no row, and
\* the task created later, which has a due date, has no flag
C31_Witness ==
    /\ SweepOver
    /\ SnapIds = {1}
    /\ outcome[1] = "gone"
    /\ ~Exists(tasks, 1)
    /\ Exists(tasks, 2)
    /\ tasks[2].due_date # NoDue
    /\ tasks[2].flags = {}

\* a timed flag k is set on task t in this step
TimedFlagSet(t, k) ==
    /\ k # final_key
    /\ k \in FlagsOf(tasks', t)
    /\ k \notin FlagsOf(tasks, t)

\* C32 as stated: the sweep selects the smallest-offset unset timed threshold
\* covering the remaining time, and the flags of a task that is not yet due
\* are set in increasing-offset order: a timed flag that is set has a larger
\* offset than every timed flag the task already has.
C32_FlagsInIncreasingOrder ==
    [][ \A t \in TaskIds : \A k \in Keys :
          TimedFlagSet(t, k) =>
              /\ k = SmallestOffset(Eligible(RowOf(t), sweepNow)).key
              /\ \A j \in FlagsOf(tasks, t) \ {final_key} :
                     Interval(j).delta < Interval(k).delta ]_vars

\* C32, amended: for every row with positive remaining time that a sweep
\* reads, the one threshold it sends for is the smallest-offset timed
\* threshold whose offset is >= the remaining time and whose flag is unset,
\* none when there is no such threshold; and a timed flag set in a step is
\* that threshold of the task's row, the only flag the sweep sets on the task.
C32_SmallestUnsetPerSweep ==
    /\ [](\A i \in DOMAIN snapshot :
             snapshot[i].due_date - sweepNow > 0 =>
                 RowSends(snapshot[i], sweepNow)
                     = IF Eligible(snapshot[i], sweepNow) = {} THEN <<>>
                       ELSE <<SmallestOffset(Eligible(snapshot[i], sweepNow)).key>>)
    /\ [][ \A t \in TaskIds : \A k \in Keys :
              TimedFlagSet(t, k) =>
                  /\ t \in SnapIds
                  /\ RowOf(t).due_date - sweepNow > 0
                  /\ k = SmallestOffset(Eligible(RowOf(t), sweepNow)).key
                  /\ marks'[t] = {k} ]_vars

\* a sweep with two hours left has set the 3-hour flag on a task whose
\* 24-hour flag, and no other, was set by an earlier sweep
C32_Witness ==
    /\ SweepOver
    /\ \E t \in SnapIds :
          /\ RowOf(t).flags = {"notified_24h"}
          /\ RowOf(t).due_date - sweepNow = 120
          /\ marks[t] = {"notified_3h"}
          /\ FlagsOf(tasks, t) = {"notified_24h", "notified_3h"}

\* C33: at most one job named 'global_deadline_check' is ever registered; the
\* number of jobs changes only in a step that takes it from none to one and
\* changes nothing else (a /start that finds no job); a run of the sweeper
\* starts only when a job is registered, so that while there is none no sweep
\* has started, none is running and no task has been sent anything.
C33_OneJobRegisteredByStart ==
    /\ [](jobs <= 1)
    /\ [](jobs = 0 =>
             /\ pc = "idle"
             /\ nSweeps = 0
             /\ snapshot = <<>>
             /\ \A t \in TaskIds :
                    attempts[t] = 0 /\ \A k \in Keys : delivered[t][k] = 0)
    /\ [][ (nSweeps' # nSweeps) => (jobs = 1) ]_vars
    /\ [][ (jobs' # jobs) =>
               /\ jobs = 0
               /\ jobs' = 1
               /\ UNCHANGED <<tasks, nextId, users, now, pc, sweepNow, snapshot,
                              todo, inflight, sentStatus, attempts, outcome,
                              atMark, marks, delivered, faults, nSweeps>> ]_vars

\* one job is registered and its run has delivered a reminder, while the
\* stored timezone of a user makes that user's /start raise before it
\* reaches the job queue
C33_Witness ==
    /\ jobs = 1
    /\ nSweeps = 1
    /\ SweepOver
    /\ \E t \in SnapIds : outcome[t] = "ok"
    /\ \E u \in Users : get_user_timezone_str(users, u).raised

====
